---- MODULE Spec2Model ----
(***************************************************************************)
(* GoProConcat: reassembly of chaptered GoPro recordings.                  *)
(*                                                                         *)
(* The model follows src/main.go: main reads the command line, probes the  *)
(* requirements, reduces the inputs' file times (getFileTimes) and merges  *)
(* (mergeFiles).  mergeFiles is split at its blocking operations: the      *)
(* validation loop, sort.Slice, os.CreateTemp, the manifest writes, the    *)
(* ffmpeg run, the SetFile run and os.Chtimes.  A return of mergeFiles     *)
(* and the deferred os.Remove it triggers are one step.                    *)
(*                                                                         *)
(* File names are sequences of one-character strings so that               *)
(* strings.ToUpper and the regular expression of parseFileName are         *)
(* computed, character by character.  Times are integers counting ticks    *)
(* (TicksPerSecond ticks to the second) from Go's zero time.Time, so a     *)
(* time can be zero, before zero, and can carry a sub-second part.         *)
(***************************************************************************)
EXTENDS Integers, Sequences, FiniteSets, TLC

VARIABLES
    entry,         \* "main": the program; "direct": mergeFiles called as the tests call it
    args,          \* os.Args[2:], the input paths as the caller spelled them
    cwdOk,         \* whether os.Getwd succeeds (filepath.Abs of a relative path needs it)
    stat,          \* the filesystem: absolute path -> what os.Stat / times.Get report
    pc,            \* position in main / mergeFiles
    creationTime,  \* the pair handed to mergeFiles
    modTime,
    err,           \* the error returned (NoErr while none)
    files,         \* mergeFiles' files slice
    listFile,      \* the temporary manifest: [created, exists, lines]
    calls,         \* the external steps performed so far, in order: [tool, ok, arg]
    out            \* the output file

vars == <<entry, args, cwdOk, stat, pc, creationTime, modTime, err, files,
          listFile, calls, out>>

-----------------------------------------------------------------------------
(* Bounds *)

MaxInputs == 3
MaxTime == 4
TicksPerSecond == 2
LocalOffset == 1

\* File times range from one tick before Go's zero time to MaxTime.
Times == (0 - 1)..MaxTime
\* The wall clock while the merge runs: no file time is later.
Now == MaxTime

-----------------------------------------------------------------------------
(* Characters and strings *)

LowerLetters ==
    <<"a","b","c","d","e","f","g","h","i","j","k","l","m",
      "n","o","p","q","r","s","t","u","v","w","x","y","z">>
UpperLetters ==
    <<"A","B","C","D","E","F","G","H","I","J","K","L","M",
      "N","O","P","Q","R","S","T","U","V","W","X","Y","Z">>
DigitChars == <<"0","1","2","3","4","5","6","7","8","9">>

IsDigit(c) == \E d \in 1..10 : DigitChars[d] = c
DigitVal(c) == (CHOOSE d \in 1..10 : DigitChars[d] = c) - 1

\* strings.ToUpper, one character
ToUpperChar(c) ==
    IF \E k \in 1..26 : LowerLetters[k] = c
    THEN UpperLetters[CHOOSE k \in 1..26 : LowerLetters[k] = c]
    ELSE c

\* strings.ToUpper
ToUpper(s) == [k \in 1..Len(s) |-> ToUpperChar(s[k])]

\* strconv.Atoi on a run of decimal digits
RECURSIVE Atoi(_)
Atoi(s) ==
    IF Len(s) = 0 THEN 0
    ELSE 10 * Atoi(SubSeq(s, 1, Len(s) - 1)) + DigitVal(s[Len(s)])

-----------------------------------------------------------------------------
(* Paths: a directory and a base name *)

Cwd == "/cwd"
\* "" spells a relative path (a bare file name); the others are absolute.
Dirs == {"", "/cwd", "/b"}

Names ==
    {"GH010002.MP4",
     "GH020001.MP4",
     "gx010002.mp4",
     "GH010002.MP4.bak",
     "randomfile.mp4"}

\* The characters of a name.
Chars(name) ==
    CASE name = "GH010002.MP4" ->
           <<"G","H","0","1","0","0","0","2",".","M","P","4">>
      [] name = "GH020001.MP4" ->
           <<"G","H","0","2","0","0","0","1",".","M","P","4">>
      [] name = "gx010002.mp4" ->
           <<"g","x","0","1","0","0","0","2",".","m","p","4">>
      [] name = "GH010002.MP4.bak" ->
           <<"G","H","0","1","0","0","0","2",".","M","P","4",".","b","a","k">>
      [] name = "randomfile.mp4" ->
           <<"r","a","n","d","o","m","f","i","l","e",".","m","p","4">>

InputPaths == [dir : Dirs, base : Names]

NoPath == [dir |-> "", base |-> ""]

\* filepath.Base, as characters
Base(p) == Chars(p.base)

\* filepath.Abs: an absolute path is kept, a relative one is joined to the
\* working directory, which fails when the working directory cannot be read.
Abs(p, wd) ==
    IF p.dir # "" THEN [ok |-> TRUE, path |-> p]
    ELSE IF wd THEN [ok |-> TRUE, path |-> [dir |-> Cwd, base |-> p.base]]
    ELSE [ok |-> FALSE, path |-> NoPath]

-----------------------------------------------------------------------------
(* Errors *)

NoErr == [kind |-> "none", path |-> NoPath]
Error(k, p) == [kind |-> k, path |-> p]

-----------------------------------------------------------------------------
(* parseFileName *)

\* The regular expression (GH|GX)(\d{2})(\d{4})\.(?i:mp4) matched at index k
\* of s.
MatchesAt(s, k) ==
    /\ k + 11 <= Len(s)
    /\ s[k] = "G"
    /\ s[k + 1] \in {"H", "X"}
    /\ \A d \in 2..7 : IsDigit(s[k + d])
    /\ s[k + 8] = "."
    /\ ToUpperChar(s[k + 9]) = "M"
    /\ ToUpperChar(s[k + 10]) = "P"
    /\ s[k + 11] = "4"

\* regexp.FindStringSubmatch: the leftmost match and its three groups, or
\* the empty slice.  Go's matches[0..3] are matches[1..4] here.
FindStringSubmatch(s) ==
    IF \E k \in 1..Len(s) : MatchesAt(s, k)
    THEN LET k == CHOOSE i \in 1..Len(s) :
                    /\ MatchesAt(s, i)
                    /\ \A j \in 1..(i - 1) : ~MatchesAt(s, j)
         IN  <<SubSeq(s, k, k + 11), SubSeq(s, k, k + 1),
               SubSeq(s, k + 2, k + 3), SubSeq(s, k + 4, k + 7)>>
    ELSE <<>>

NoFileInfo == [Path |-> NoPath, FileNumber |-> 0, ChapterNumber |-> 0]

parseFileName_Swapped(filePath) ==
    LET matches == FindStringSubmatch(ToUpper(Base(filePath)))
    IN  IF Len(matches) < 4
        THEN [err |-> Error("InvalidFilenameFormat", filePath), info |-> NoFileInfo]
        ELSE [err |-> NoErr,
              info |-> [Path |-> filePath,
                        FileNumber |-> Atoi(matches[3]),
                        ChapterNumber |-> Atoi(matches[4])]]

parseFileName(filePath) ==
    LET matches == FindStringSubmatch(ToUpper(Base(filePath)))
    IN  IF Len(matches) < 4
        THEN [err |-> Error("InvalidFilenameFormat", filePath), info |-> NoFileInfo]
        ELSE [err |-> NoErr,
              info |-> [Path |-> filePath,
                        FileNumber |-> Atoi(matches[4]),
                        ChapterNumber |-> Atoi(matches[3])]]

-----------------------------------------------------------------------------
(* mergeFiles: the validation loop (lines 61-78) *)

\* One pass of the loop from index k on, with the fileMap and the files
\* gathered so far.  The first failing check of the first failing entry
\* returns.
\* Line 67: fileMap[absPath]
InFileMap_Never(absPath, fileMap) == FALSE

InFileMap(absPath, fileMap) == absPath \in fileMap

RECURSIVE ValidateFrom(_, _, _, _, _)
ValidateFrom(inputPaths, k, fileMap, acc, wd) ==
    IF k > Len(inputPaths) THEN [err |-> NoErr, files |-> acc]
    ELSE
      LET inputPath == inputPaths[k]
          abs == Abs(inputPath, wd)
      IN  IF ~abs.ok
          THEN [err |-> Error("AbsFailure", inputPath), files |-> <<>>]
          ELSE IF InFileMap(abs.path, fileMap)
          THEN [err |-> Error("DuplicateInput", abs.path), files |-> <<>>]
          ELSE
            LET parsed == parseFileName(inputPath)
            IN  IF parsed.err # NoErr
                THEN [err |-> parsed.err, files |-> <<>>]
                ELSE ValidateFrom(inputPaths, k + 1, fileMap \cup {abs.path},
                         Append(acc, [parsed.info EXCEPT !.Path = abs.path]), wd)

ValidateInputs(inputPaths, wd) == ValidateFrom(inputPaths, 1, {}, <<>>, wd)

-----------------------------------------------------------------------------
(* mergeFiles: sort.Slice (lines 80-86) *)

\* The less function handed to sort.Slice.
Less(a, b) ==
    IF a.FileNumber = b.FileNumber
    THEN a.ChapterNumber < b.ChapterNumber
    ELSE a.FileNumber < b.FileNumber

\* sort.Slice sorts a slice of at most 12 elements by insertion sort (the
\* pdqsort of Go 1.19 and later, and the quickSort before it, which adds a
\* Shell pass only from 7 elements on): the element at j moves left while
\* it is less than its left neighbour.
RECURSIVE SiftLeft(_, _)
SiftLeft(data, j) ==
    IF j > 1 /\ Less(data[j], data[j - 1])
    THEN SiftLeft([data EXCEPT ![j] = data[j - 1], ![j - 1] = data[j]], j - 1)
    ELSE data

RECURSIVE InsertionSortFrom(_, _)
InsertionSortFrom(data, k) ==
    IF k > Len(data) THEN data
    ELSE InsertionSortFrom(SiftLeft(data, k), k + 1)

SortSlice(data) == InsertionSortFrom(data, 2)

\* The manifest lines of lines 94-99: file '<path>'
ManifestLine(f) == [directive |-> "file", path |-> f.Path]
ManifestLines(fs) == [k \in 1..Len(fs) |-> ManifestLine(fs[k])]

-----------------------------------------------------------------------------
(* getFileTimes (lines 140-163) *)

\* time.Time's IsZero and Before
IsZero(t) == t = 0
Before(a, b) == a < b

StatOf(p) == stat[Abs(p, TRUE).path]

\* Lines 150-152: the running oldest birth time after one more file.
NextOldest(oldestTime, info) ==
    IF info.hasBirth /\ (IsZero(oldestTime) \/ Before(info.birth, oldestTime))
    THEN info.birth ELSE oldestTime

\* Lines 153-155: the running latest modification time after one more file.
NextModTime_Last(mTime, info) == info.mtime

NextModTime(mTime, info) ==
    IF Before(mTime, info.mtime) THEN info.mtime ELSE mTime

\* Lines 158-162: the result once every file is read.
FinishTimes_NoCheck(oldestTime, mTime) ==
    [err |-> NoErr, creation |-> oldestTime, mod |-> mTime]

FinishTimes(oldestTime, mTime) ==
    IF IsZero(oldestTime)
    THEN [err |-> Error("MissingCreationTime", NoPath), creation |-> 0, mod |-> 0]
    ELSE [err |-> NoErr, creation |-> oldestTime, mod |-> mTime]

\* The loop from index k on with the running oldestTime and modTime.
RECURSIVE GetFileTimesFrom(_, _, _, _)
GetFileTimesFrom(inputPaths, k, oldestTime, mTime) ==
    IF k > Len(inputPaths) THEN FinishTimes(oldestTime, mTime)
    ELSE
      LET info == StatOf(inputPaths[k])
      IN  IF ~info.ok
          THEN [err |-> Error("StatFailure", inputPaths[k]), creation |-> 0, mod |-> 0]
          ELSE GetFileTimesFrom(inputPaths, k + 1,
                 NextOldest(oldestTime, info), NextModTime(mTime, info))

getFileTimes(inputPaths) == GetFileTimesFrom(inputPaths, 1, 0, 0)

-----------------------------------------------------------------------------
(* The timestamp renderings of mergeFiles (lines 123-132) *)

\* creationTime.In(time.Local).Format("01/02/2006 15:04:05"): the local
\* wall clock in whole seconds; the layout has no fraction and no zone.
FormatSetFileDate(t) == (t \div TicksPerSecond) + LocalOffset

\* SetFile -d reads the date as local wall-clock time and sets the birth
\* time to that second.
SetFileBirthTime(date) == (date - LocalOffset) * TicksPerSecond

-----------------------------------------------------------------------------
(* Initial states *)

StatRecs ==
    {[ok |-> FALSE, hasBirth |-> FALSE, birth |-> 0, mtime |-> 0]}
    \cup {[ok |-> TRUE, hasBirth |-> FALSE, birth |-> 0, mtime |-> m] : m \in Times}
    \cup {[ok |-> TRUE, hasBirth |-> TRUE, birth |-> b, mtime |-> m] :
            b \in Times, m \in Times}

\* A file created one tick after the zero time and last written one second
\* later.
DefaultStat == [ok |-> TRUE, hasBirth |-> TRUE, birth |-> 1, mtime |-> 1 + TicksPerSecond]

NoListFile == [created |-> FALSE, exists |-> FALSE, lines |-> <<>>]
NoOutput == [exists |-> FALSE, content |-> <<>>, birth |-> 0, mtime |-> 0, atime |-> 0]

ArgLists(paths, lo, hi) == UNION {[1..n -> paths] : n \in lo..hi}

\* The files a list of inputs names.
FilesOf(inputPaths) == {Abs(inputPaths[k], TRUE).path : k \in 1..Len(inputPaths)}

\* The two recordings whose file times vary.
FirstChapter == [dir |-> "", base |-> "GH010002.MP4"]
SecondChapter == [dir |-> "/b", base |-> "GH020001.MP4"]
TimedArgLists ==
    {<<FirstChapter>>, <<FirstChapter, SecondChapter>>, <<SecondChapter, FirstChapter>>}

InitCommon ==
    /\ err = NoErr
    /\ files = <<>>
    /\ listFile = NoListFile
    /\ calls = <<>>
    /\ out = NoOutput

\* mergeFiles called with any list of up to MaxInputs paths, in any
\* spelling, and one time pair.
InitNames ==
    /\ entry = "direct"
    /\ args \in ArgLists(InputPaths, 1, MaxInputs)
    /\ cwdOk = TRUE
    /\ stat = [p \in FilesOf(args) |-> DefaultStat]
    /\ creationTime = 1
    /\ modTime = 1 + TicksPerSecond
    /\ pc = "validate"

\* The same from a working directory that cannot be read, with shorter
\* lists.
InitNoCwd ==
    /\ entry = "direct"
    /\ args \in ArgLists(InputPaths, 1, MaxInputs - 1)
    /\ cwdOk = FALSE
    /\ stat = [p \in FilesOf(args) |-> DefaultStat]
    /\ creationTime = 1
    /\ modTime = 1 + TicksPerSecond
    /\ pc = "validate"

\* mergeFiles called with any time pair.
InitDirect ==
    /\ entry = "direct"
    /\ args \in TimedArgLists
    /\ cwdOk = TRUE
    /\ stat = [p \in FilesOf(args) |-> DefaultStat]
    /\ creationTime \in Times
    /\ modTime \in Times
    /\ pc = "validate"

\* The program run on files of any file times.
InitMain ==
    /\ entry = "main"
    /\ args \in {<<>>} \cup TimedArgLists
    /\ cwdOk = TRUE
    /\ stat \in [FilesOf(args) -> StatRecs]
    /\ creationTime = 0
    /\ modTime = 0
    /\ pc = "main"

Init == InitCommon /\ (InitNames \/ InitNoCwd \/ InitDirect \/ InitMain)

-----------------------------------------------------------------------------
(* main (lines 165-193) *)

\* len(os.Args) < 3: usage, and return.
MainArgs ==
    /\ pc = "main"
    /\ pc' = IF Len(args) < 1 THEN "exit" ELSE "checkRequirements"
    /\ UNCHANGED <<entry, args, cwdOk, stat, creationTime, modTime, err, files,
                   listFile, calls, out>>

\* checkRequirements (lines 24-40): the platform and the two tools.
CheckRequirements ==
    /\ pc = "checkRequirements"
    /\ \E met \in BOOLEAN :
         IF met
         THEN pc' = "getFileTimes" /\ err' = err
         ELSE pc' = "exit" /\ err' = Error("RequirementUnmet", NoPath)
    /\ UNCHANGED <<entry, args, cwdOk, stat, creationTime, modTime, files,
                   listFile, calls, out>>

\* creationTime, modTime, err := getFileTimes(inputPaths); on an error main
\* prints it and returns.
GetFileTimes ==
    /\ pc = "getFileTimes"
    /\ LET r == getFileTimes(args)
       IN  /\ creationTime' = r.creation
           /\ modTime' = r.mod
           /\ err' = r.err
           /\ pc' = IF r.err = NoErr THEN "validate" ELSE "exit"
    /\ UNCHANGED <<entry, args, cwdOk, stat, files, listFile, calls, out>>

-----------------------------------------------------------------------------
(* mergeFiles (lines 57-138) *)

\* defer os.Remove(listFile.Name()) (line 92), run by every return that
\* follows it.
DeferredRemove_Missing(lf) == lf

DeferredRemove(lf) == [lf EXCEPT !.exists = FALSE]

\* Lines 61-78.
Validate ==
    /\ pc = "validate"
    /\ LET r == ValidateInputs(args, cwdOk)
       IN  /\ err' = r.err
           /\ files' = r.files
           /\ pc' = IF r.err = NoErr THEN "sort" ELSE "failed"
    /\ UNCHANGED <<entry, args, cwdOk, stat, creationTime, modTime, listFile,
                   calls, out>>

\* Lines 80-86.
Sort ==
    /\ pc = "sort"
    /\ files' = SortSlice(files)
    /\ pc' = "createTemp"
    /\ UNCHANGED <<entry, args, cwdOk, stat, creationTime, modTime, err,
                   listFile, calls, out>>

\* Lines 88-92.
CreateTemp ==
    /\ pc = "createTemp"
    /\ \E ok \in BOOLEAN :
         IF ok
         THEN /\ listFile' = [created |-> TRUE, exists |-> TRUE, lines |-> <<>>]
              /\ pc' = "writeList"
              /\ err' = err
         ELSE /\ listFile' = listFile
              /\ pc' = "failed"
              /\ err' = Error("TempFileFailure", NoPath)
    /\ UNCHANGED <<entry, args, cwdOk, stat, creationTime, modTime, files,
                   calls, out>>

\* Lines 94-100: every line is written, or the write of line k fails and
\* mergeFiles returns.
WriteList ==
    /\ pc = "writeList"
    /\ \/ /\ listFile' = [listFile EXCEPT !.lines = ManifestLines(files)]
          /\ pc' = "ffmpeg"
          /\ err' = err
       \/ \E k \in 1..Len(files) :
            /\ listFile' = DeferredRemove(
                 [listFile EXCEPT !.lines = SubSeq(ManifestLines(files), 1, k - 1)])
            /\ pc' = "failed"
            /\ err' = Error("ManifestWriteFailure", NoPath)
    /\ UNCHANGED <<entry, args, cwdOk, stat, creationTime, modTime, files,
                   calls, out>>

ManifestPaths(lines) == [k \in 1..Len(lines) |-> lines[k].path]

\* What a successful ffmpeg run leaves: the inputs of the list, in its
\* order, in a file written now.
Concatenated(lines) ==
    [exists |-> TRUE, content |-> ManifestPaths(lines),
     birth |-> Now, mtime |-> Now, atime |-> Now]

\* Lines 102-121: ffmpeg -f concat -i listFile ... -y outputPath.  A failed
\* run may leave a partial output file behind.
RunFfmpeg_IgnoreError ==
    /\ pc = "ffmpeg"
    /\ \E ok \in BOOLEAN :
         /\ calls' = Append(calls, [tool |-> "ffmpeg", ok |-> ok])
         /\ IF ok
            THEN /\ out' = Concatenated(listFile.lines)
                 /\ listFile' = listFile
                 /\ pc' = "setFile"
                 /\ err' = err
            ELSE /\ out' \in {out, [Concatenated(<<>>) EXCEPT !.exists = TRUE]}
                 /\ listFile' = listFile
                 /\ pc' = "setFile"
                 /\ err' = err
    /\ UNCHANGED <<entry, args, cwdOk, stat, creationTime, modTime, files>>

RunFfmpeg ==
    /\ pc = "ffmpeg"
    /\ \E ok \in BOOLEAN :
         /\ calls' = Append(calls, [tool |-> "ffmpeg", ok |-> ok])
         /\ IF ok
            THEN /\ out' = Concatenated(listFile.lines)
                 /\ listFile' = listFile
                 /\ pc' = "setFile"
                 /\ err' = err
            ELSE /\ out' \in {out, [Concatenated(<<>>) EXCEPT !.exists = TRUE]}
                 /\ listFile' = DeferredRemove(listFile)
                 /\ pc' = "failed"
                 /\ err' = Error("ExternalToolFailure", NoPath)
    /\ UNCHANGED <<entry, args, cwdOk, stat, creationTime, modTime, files>>

\* Lines 123-130: SetFile -d <date> outputPath.
RunSetFile ==
    /\ pc = "setFile"
    /\ \E ok \in BOOLEAN :
         /\ calls' = Append(calls, [tool |-> "SetFile", ok |-> ok])
         /\ IF ok
            THEN /\ out' = [out EXCEPT
                              !.birth = SetFileBirthTime(FormatSetFileDate(creationTime))]
                 /\ listFile' = listFile
                 /\ pc' = "chtimes"
                 /\ err' = err
            ELSE /\ out' = out
                 /\ listFile' = DeferredRemove(listFile)
                 /\ pc' = "failed"
                 /\ err' = Error("TimestampApplyFailure", NoPath)
    /\ UNCHANGED <<entry, args, cwdOk, stat, creationTime, modTime, files>>

\* Lines 132-137: os.Chtimes(outputPath, creationTime, modTime), then
\* return nil.
Chtimes ==
    /\ pc = "chtimes"
    /\ \E ok \in BOOLEAN :
         /\ calls' = Append(calls, [tool |-> "Chtimes", ok |-> ok])
         /\ listFile' = DeferredRemove(listFile)
         /\ IF ok
            THEN /\ out' = [out EXCEPT !.atime = creationTime, !.mtime = modTime]
                 /\ pc' = "done"
                 /\ err' = err
            ELSE /\ out' = out
                 /\ pc' = "failed"
                 /\ err' = Error("TimestampApplyFailure", NoPath)
    /\ UNCHANGED <<entry, args, cwdOk, stat, creationTime, modTime, files>>

Next ==
    \/ MainArgs
    \/ CheckRequirements
    \/ GetFileTimes
    \/ Validate
    \/ Sort
    \/ CreateTemp
    \/ WriteList
    \/ RunFfmpeg
    \/ RunSetFile
    \/ Chtimes

Spec == Init /\ [][Next]_vars

-----------------------------------------------------------------------------
(* Vocabulary of the properties *)

\* mergeFiles has finished its validation loop.
Validated ==
    pc \in {"sort", "createTemp", "writeList", "ffmpeg", "setFile", "chtimes",
            "done", "failed"}

\* getFileTimes has returned to main.
TimesReturned ==
    /\ entry = "main"
    /\ \/ Validated
       \/ pc = "validate"
       \/ pc = "exit" /\ err.kind \in {"StatFailure", "MissingCreationTime"}

\* No external step was performed: no tool ran, no manifest was created,
\* the output file is as it was.
NothingDone == calls = <<>> /\ ~listFile.created /\ out = NoOutput

\* The reorderings of a list.
Reorderings(s) ==
    {[k \in 1..Len(s) |-> s[f[k]]] :
        f \in {g \in [1..Len(s) -> 1..Len(s)] :
                 \A i, j \in 1..Len(s) : g[i] = g[j] => i = j}}

\* A name of twelve characters: two letters, two digits, four digits and
\* the extension .mp4, in either case.
IsLetter(c) == \E k \in 1..26 : UpperLetters[k] = c \/ LowerLetters[k] = c
IsChapterName(name) ==
    /\ Len(name) = 12
    /\ IsLetter(name[1]) /\ IsLetter(name[2])
    /\ \A d \in 3..8 : name[d] \in {"0","1","2","3","4","5","6","7","8","9"}
    /\ SubSeq(ToUpper(name), 9, 12) = <<".", "M", "P", "4">>

\* A name that holds, somewhere, GH or GX, six digits and .MP4 once
\* upper-cased.
IsGoProRun(t) ==
    /\ SubSeq(t, 1, 2) \in {<<"G", "H">>, <<"G", "X">>}
    /\ \A d \in 3..8 : t[d] \in {"0","1","2","3","4","5","6","7","8","9"}
    /\ SubSeq(t, 9, 12) = <<".", "M", "P", "4">>
HoldsGoProRun(name) ==
    \E k \in 1..(Len(name) - 11) : IsGoProRun(SubSeq(ToUpper(name), k, k + 11))

\* The digits of a name, in order: the first two are the chapter, the next
\* four the file number.
DigitsOf(name) == SelectSeq(name, LAMBDA c : c \in {"0","1","2","3","4","5","6","7","8","9"})
DecimalValue(ds) ==
    LET v[k \in 0..Len(ds)] ==
          IF k = 0 THEN 0
          ELSE 10 * v[k - 1] +
               (CHOOSE n \in 0..9 : <<"0","1","2","3","4","5","6","7","8","9">>[n + 1] = ds[k])
    IN  v[Len(ds)]
ChapterOf(p) == DecimalValue(SubSeq(DigitsOf(Chars(p.base)), 1, 2))
FileOf(p) == DecimalValue(SubSeq(DigitsOf(Chars(p.base)), 3, 6))
\* The absolute location an input names.
Resolves(p) == p.dir # "" \/ cwdOk
Location(p) == IF p.dir = "" THEN [dir |-> Cwd, base |-> p.base] ELSE p

\* The manifest as last written.
Manifest == ManifestPaths(listFile.lines)

-----------------------------------------------------------------------------
(* C1 *)

-----------------------------------------------------------------------------
(* C2 *)

\* The merge plan mergeFiles builds from a list of inputs.
PlanOf(inputPaths) ==
    LET r == ValidateInputs(inputPaths, cwdOk)
        sorted == SortSlice(r.files)
    IN  [k \in 1..Len(sorted) |-> sorted[k].Path]

\* C2: the merge plan of a set of inputs is the same in whatever order the
\* inputs are given, equal ordering keys included.
C2_PlanIndependentOfOrder ==
    pc = "createTemp" =>
      \A q \in Reorderings(args) :
        PlanOf(q) = [k \in 1..Len(files) |-> files[k].Path]

-----------------------------------------------------------------------------
(* C3 *)

HasDuplicate ==
    \E i, j \in 1..Len(args) :
      i < j /\ Resolves(args[i]) /\ Resolves(args[j])
            /\ Location(args[i]) = Location(args[j])

\* The index of the first entry that repeats an earlier one.
FirstRepeat ==
    CHOOSE j \in 1..Len(args) :
      /\ \E i \in 1..(j - 1) : Resolves(args[i]) /\ Resolves(args[j])
                               /\ Location(args[i]) = Location(args[j])
      /\ \A j2 \in 1..(j - 1) :
           ~\E i \in 1..(j2 - 1) : Resolves(args[i]) /\ Resolves(args[j2])
                                   /\ Location(args[i]) = Location(args[j2])

\* C3 as stated: a list with two entries of one absolute path fails with
\* DuplicateInput naming that path, whatever else it holds, and nothing is
\* done to the output.
C3_DuplicateAlwaysReported ==
    (Validated /\ HasDuplicate) =>
      /\ pc = "failed"
      /\ err.kind = "DuplicateInput"
      /\ \E i, j \in 1..Len(args) : i < j /\ Location(args[i]) = err.path
                                          /\ Location(args[j]) = err.path
      /\ NothingDone

\* C3, amended: a list with two entries of one absolute path fails before
\* any external step, and the failure is DuplicateInput naming the first
\* repeated path when every entry before the repeat resolves and parses;
\* otherwise it is that earlier entry's failure.
C3_DuplicateFailsBeforeAnyStep ==
    (Validated /\ HasDuplicate) =>
      /\ pc = "failed"
      /\ NothingDone
      /\ err.kind \in {"DuplicateInput", "InvalidFilenameFormat", "AbsFailure"}
      /\ (\A k \in 1..(FirstRepeat - 1) :
             Resolves(args[k]) /\ HoldsGoProRun(Chars(args[k].base)))
           => err = Error("DuplicateInput", Location(args[FirstRepeat]))

\* A twice-given file, once by its bare name and once by its absolute
\* path, after a well-named first input.
C3_Witness ==
    /\ pc = "failed"
    /\ Len(args) = 3
    /\ HasDuplicate
    /\ FirstRepeat = 3
    /\ args[2].dir # args[3].dir
    /\ err.kind = "DuplicateInput"

-----------------------------------------------------------------------------
(* C4 *)

StatsOf == [k \in 1..Len(args) |-> StatOf(args[k])]
AllStatable == \A k \in 1..Len(args) : StatsOf[k].ok
Births == {StatsOf[k].birth : k \in {i \in 1..Len(args) : StatsOf[i].hasBirth}}
ModTimes == {StatsOf[k].mtime : k \in 1..Len(args)}
Least(S) == CHOOSE x \in S : \A y \in S : x <= y
Greatest(S) == CHOOSE x \in S : \A y \in S : y <= x

\* getFileTimes returned the earliest birth time and the latest
\* modification time, as it does for every reordering of the inputs.
ReturnedAggregate ==
    /\ pc # "exit"
    /\ creationTime = Least(Births)
    /\ modTime = Greatest(ModTimes)
    /\ \A q \in Reorderings(args) :
         getFileTimes(q) = [err |-> NoErr, creation |-> creationTime, mod |-> modTime]

\* C4 as stated: for files that can all be read and of which one reports a
\* birth time, whatever their timestamps, getFileTimes returns (earliest
\* birth time, latest modification time), in every order of the inputs.
C4_EarliestBirthLatestMod ==
    (TimesReturned /\ Len(args) > 0 /\ AllStatable /\ Births # {})
      => ReturnedAggregate

\* C4, amended: the same, for files none of whose birth times is the zero
\* time and whose latest modification time is not before the zero time.
C4_EarliestBirthLatestModAfterZero ==
    ( /\ TimesReturned /\ Len(args) > 0 /\ AllStatable /\ Births # {}
      /\ 0 \notin Births
      /\ Greatest(ModTimes) >= 0 )
      => ReturnedAggregate

\* Two files, the second-listed one the older, the first-listed one the
\* last modified.
C4_Witness ==
    /\ entry = "main"
    /\ pc = "validate"
    /\ Len(args) = 2
    /\ StatsOf[1].hasBirth /\ StatsOf[2].hasBirth
    /\ StatsOf[2].birth < StatsOf[1].birth
    /\ StatsOf[2].mtime < StatsOf[1].mtime
    /\ creationTime = StatsOf[2].birth
    /\ modTime = StatsOf[1].mtime

-----------------------------------------------------------------------------
(* C5 *)

\* C5: a name that is not two letters, two digits, four digits and .mp4 is
\* refused by parseFileName with InvalidFilenameFormat, and when one input
\* of a merge has such a name, the others being distinct and resolvable,
\* the merge fails with that error before any external step.
C5_MalformedAlwaysInvalidFormat ==
    ( /\ Validated
      /\ \E k \in 1..Len(args) : ~IsChapterName(Chars(args[k].base))
      /\ \A k \in 1..Len(args) : Resolves(args[k])
      /\ \A i, j \in 1..Len(args) : Location(args[i]) = Location(args[j]) => i = j )
    => /\ \A k \in 1..Len(args) :
            ~IsChapterName(Chars(args[k].base)) =>
              parseFileName(args[k]).err.kind = "InvalidFilenameFormat"
       /\ pc = "failed"
       /\ err.kind = "InvalidFilenameFormat"
       /\ NothingDone

-----------------------------------------------------------------------------
(* C6 *)

\* C6: once mergeFiles has returned without error, the output file's birth
\* time is the creation time it was given and its modification time the
\* modification time it was given, sub-second parts included.
C6_TimestampsRoundTrip ==
    pc = "done" => out.birth = creationTime /\ out.mtime = modTime

-----------------------------------------------------------------------------
(* C7 *)

Distance(a, b) == IF a < b THEN b - a ELSE a - b

\* C7: a merge of a single well-named input whose every step succeeds ran
\* the concatenation tool on a one-line manifest and leaves an output
\* whose modification time is within one second of the input's.
C7_SingleInputKeepsModTime ==
    (pc = "done" /\ Len(args) = 1) =>
      /\ calls[1] = [tool |-> "ffmpeg", ok |-> TRUE]
      /\ Manifest = <<Location(args[1])>>
      /\ out.content = Manifest
      /\ Distance(out.mtime, StatOf(args[1]).mtime) <= TicksPerSecond

-----------------------------------------------------------------------------
(* C8 *)

\* The first input that cannot be read.
FirstUnstatable ==
    CHOOSE k \in 1..Len(args) :
      ~StatsOf[k].ok /\ \A i \in 1..(k - 1) : StatsOf[i].ok

\* C8: getFileTimes returns a time pair only if every input can be read
\* and one of them reports a birth time; if an input cannot be read it
\* fails with StatFailure naming the first such input; if all can be read
\* and none reports a birth time it fails with MissingCreationTime; a
\* failure returns the zero pair and main performs no step of the merge.
C8_TimesOnlyFromReadableFiles ==
    TimesReturned =>
      /\ pc # "exit" => (AllStatable /\ Births # {})
      /\ pc = "validate" => err = NoErr
      /\ ~AllStatable =>
           pc = "exit" /\ err = Error("StatFailure", args[FirstUnstatable])
      /\ (AllStatable /\ Births = {}) =>
           pc = "exit" /\ err = Error("MissingCreationTime", NoPath)
      /\ pc = "exit" =>
           /\ creationTime = 0 /\ modTime = 0
           /\ files = <<>>
           /\ NothingDone

\* Two readable files without a birth time: main stopped after
\* getFileTimes.
C8_Witness ==
    /\ entry = "main"
    /\ pc = "exit"
    /\ Len(args) = 2
    /\ AllStatable
    /\ Births = {}
    /\ err.kind = "MissingCreationTime"

-----------------------------------------------------------------------------
(* C9 *)

\* The state of the invocation a position belongs to: 0 before mergeFiles,
\* 1 Validating, 2 Ordering, 3 Concatenating, 4 StampingCreation,
\* 5 StampingTimes, 6 Done, 7 Failed (or main returned without merging).
StateOf(position) ==
    CASE position \in {"main", "checkRequirements", "getFileTimes"} -> 0
      [] position = "validate" -> 1
      [] position = "sort" -> 2
      [] position \in {"createTemp", "writeList", "ffmpeg"} -> 3
      [] position = "setFile" -> 4
      [] position = "chtimes" -> 5
      [] position = "done" -> 6
      [] position \in {"failed", "exit"} -> 7

StepOrder == <<"ffmpeg", "SetFile", "Chtimes">>

\* The external steps run in order, each at most once, each only after the
\* one before it succeeded, and each in the state it belongs to.
StepsInOrder ==
    /\ Len(calls) <= 3
    /\ \A k \in 1..Len(calls) :
         /\ calls[k].tool = StepOrder[k]
         /\ k < Len(calls) => calls[k].ok
    /\ (calls # <<>> /\ ~calls[Len(calls)].ok) => StateOf(pc) = 7
    /\ StateOf(pc) \in 1..6 =>
         Len(calls) = (IF StateOf(pc) <= 3 THEN 0 ELSE StateOf(pc) - 3)

\* A step moves to the same state, to the next one, or to Failed; Done and
\* Failed are left by no step; a step performs at most one external step.
ForwardStep ==
    /\ StateOf(pc) \notin {6, 7}
    /\ StateOf(pc') \in {StateOf(pc), StateOf(pc) + 1, 7}
    /\ pc' # pc
    /\ \/ calls' = calls
       \/ \E c \in [tool : {"ffmpeg", "SetFile", "Chtimes"}, ok : BOOLEAN] :
            calls' = Append(calls, c)

\* C9: an invocation moves only forward through Validating, Ordering,
\* Concatenating, StampingCreation, StampingTimes, Done, with Failed
\* reachable from every state and final; the concatenation tool, the
\* birth-time tool and the timestamp write each run at most once and in
\* that order, each only after the one before succeeded, and nothing runs
\* after a failure.
C9_ForwardOnlyNoRetry == []StepsInOrder /\ [][ForwardStep]_vars

\* The concatenation succeeded, the birth-time tool failed, and the
\* invocation ended there.
C9_Witness ==
    /\ pc = "failed"
    /\ Len(calls) = 2
    /\ calls[1] = [tool |-> "ffmpeg", ok |-> TRUE]
    /\ calls[2] = [tool |-> "SetFile", ok |-> FALSE]

-----------------------------------------------------------------------------
(* C10 *)

\* C10: the manifest file is created only once validation and ordering
\* have succeeded, it exists while the manifest is written and the tools
\* run, no tool runs before it is created, and whenever mergeFiles has
\* returned - on a write failure, a tool failure or success - it is gone;
\* a failed validation creates none.
C10_ManifestIsScoped ==
    /\ listFile.created =>
         pc \in {"writeList", "ffmpeg", "setFile", "chtimes", "done", "failed"}
    /\ pc \in {"writeList", "ffmpeg", "setFile", "chtimes"} =>
         listFile.created /\ listFile.exists
    /\ calls # <<>> => listFile.created
    /\ pc \in {"done", "failed", "exit"} => ~listFile.exists
    /\ err.kind \in {"AbsFailure", "DuplicateInput", "InvalidFilenameFormat"} =>
         ~listFile.created
    /\ listFile.exists => listFile.created

\* The concatenation tool failed after the manifest was written.
C10_Witness ==
    /\ pc = "failed"
    /\ err.kind = "ExternalToolFailure"
    /\ listFile.created
    /\ listFile.lines # <<>>
    /\ ~listFile.exists

====
